---- MODULE Spec2Model ----
(***************************************************************************)
(* Model of LBB_DSS_AI_DASHBOARD.py: the Streamlit dashboard that fetches  *)
(* a company's revenue/cost segments, asks a language model for three      *)
(* texts and for plotting code, and executes that code to obtain a figure. *)
(*                                                                         *)
(* Texts (model responses, generated code) are sequences of one-character  *)
(* strings, so that str.strip, str.replace and the line structure of the   *)
(* generated program are computed character by character.                  *)
(***************************************************************************)
EXTENDS Integers, Sequences, FiniteSets, TLC

VARIABLES
    \* ---- module level (lines 10-24) ----
    env,            \* the process environment: which credentials are set
    HEADERS,        \* per script run: the Authorization header value
    llm,            \* per script run: the key the ChatGroq client holds
    \* ---- one script run per session (main, lines 143-149) ----
    pc,             \* position of each run
    ticker,         \* st.text_input value of the run
    data_segments,  \* the DataFrame built by segments_summary, or None
    code,           \* visualize_segments' local `code`
    exec_locals,    \* visualize_segments' local dict `exec_locals`
    display,        \* what the run has rendered through st.*
    log,            \* outbound calls the run has issued, in order
    inflight,       \* outbound calls issued and not yet returned
    exc,            \* the exception that left the script run, if any
    response,       \* what the data service answered to the run's request
    \* ---- clean_python_code applied on its own (lines 45-47) ----
    body,           \* a code body
    fenced,         \* whether the response wraps body in a python fence
    raw_code,       \* the raw model response
    once,           \* clean_python_code(raw_code)
    twice,          \* clean_python_code(clean_python_code(raw_code))
    cstep           \* "raw" | "once" | "twice"

appVars   == <<env, HEADERS, llm, pc, ticker, data_segments, code,
               exec_locals, display, log, inflight, exc, response>>
cleanVars == <<body, fenced, raw_code, once, twice, cstep>>
vars      == <<env, HEADERS, llm, pc, ticker, data_segments, code,
               exec_locals, display, log, inflight, exc, response,
               body, fenced, raw_code, once, twice, cstep>>

(***************************************************************************)
(* Bounds                                                                  *)
(***************************************************************************)
NumRuns   == 2      \* script runs (sessions) that may overlap
MaxTokens == 3      \* tokens concatenated into a raw text for cleaning

Runs == 1..NumRuns
None == "None"

(***************************************************************************)
(* Python string methods                                                   *)
(***************************************************************************)
Whitespace == {" ", "\n", "\t"}
\* The backtick character (written out: a backtick inside a string confuses SANY)
BT         == "BACKTICK"
Backticks  == {BT}
PYTHON     == <<"p", "y", "t", "h", "o", "n">>
FENCE      == <<BT, BT, BT>>
NL         == <<"\n">>

RECURSIVE LStrip(_, _)
LStrip(s, chars) ==
    IF s = <<>> THEN s
    ELSE IF Head(s) \in chars THEN LStrip(Tail(s), chars) ELSE s

RECURSIVE RStrip(_, _)
RStrip(s, chars) ==
    IF s = <<>> THEN s
    ELSE IF s[Len(s)] \in chars THEN RStrip(SubSeq(s, 1, Len(s) - 1), chars)
    ELSE s

\* str.strip(chars): drop leading and trailing characters that are in chars
Strip(s, chars) == RStrip(LStrip(s, chars), chars)

\* str.replace(old, new): leftmost non-overlapping occurrences, one pass
RECURSIVE Replace(_, _, _)
Replace(s, old, new) ==
    IF Len(s) < Len(old) THEN s
    ELSE IF SubSeq(s, 1, Len(old)) = old
         THEN new \o Replace(SubSeq(s, Len(old) + 1, Len(s)), old, new)
         ELSE <<Head(s)>> \o Replace(Tail(s), old, new)

\* raw_code.strip().strip(3 backticks).replace("python", "").strip()
clean_python_code(raw) ==
    Strip(Replace(Strip(Strip(raw, Whitespace), Backticks), PYTHON, <<>>),
          Whitespace)

\* the fence: 3 backticks, python, newline, the code, newline, 3 backticks
Fence(c) == FENCE \o PYTHON \o NL \o c \o NL \o FENCE

(***************************************************************************)
(* Raw texts for the cleaning specification                                *)
(***************************************************************************)
Tokens == { <<BT>>, <<" ">>, NL, PYTHON, <<"p", "y", "t", "h">>,
            <<"o", "n">>, <<"x">> }

RECURSIVE TextsOf(_)
TextsOf(n) ==
    IF n = 0 THEN { <<>> }
    ELSE LET shorter == TextsOf(n - 1)
         IN  shorter \cup { t \o s : t \in Tokens, s \in shorter }

Texts == TextsOf(MaxTokens)

InitCleanVars ==
    /\ body \in Texts
    /\ fenced \in BOOLEAN
    /\ raw_code = IF fenced THEN Fence(body) ELSE body
    /\ once = <<>>
    /\ twice = <<>>
    /\ cstep = "raw"

CleanOnce ==
    /\ cstep = "raw"
    /\ once' = clean_python_code(raw_code)
    /\ cstep' = "once"
    /\ UNCHANGED <<body, fenced, raw_code, twice>>
    /\ UNCHANGED appVars

CleanTwice ==
    /\ cstep = "once"
    /\ twice' = clean_python_code(once)
    /\ cstep' = "twice"
    /\ UNCHANGED <<body, fenced, raw_code, once>>
    /\ UNCHANGED appVars

(***************************************************************************)
(* The generated program: compile and exec (line 105)                      *)
(*                                                                         *)
(* A program is lines separated by newlines.  A line is empty, an import   *)
(* "import <name>", an assignment "<name>=<name>" or "<name>=1", or the    *)
(* expression statement "{}[0]"; any other line does not compile.          *)
(***************************************************************************)
IdentChars == {"a", "b", "c", "d", "e", "f", "g", "h", "i", "j", "k", "l",
               "m", "n", "o", "p", "q", "r", "s", "t", "u", "v", "w", "x",
               "y", "z", "_"}

IsIdent(s) == s # <<>> /\ \A i \in 1..Len(s) : s[i] \in IdentChars

\* names the program text may use
FIG           == <<"f", "i", "g">>
N_x           == <<"x">>
N_m           == <<"m">>
N_q           == <<"q">>
N_len         == <<"l", "e", "n">>
N_llm         == <<"l", "l", "m">>
N_ticker      == <<"t", "i", "c", "k", "e", "r">>
N_data        == <<"d", "a", "t", "a", "_", "s", "e", "g", "m", "e", "n", "t", "s">>
IMPORT_       == <<"i", "m", "p", "o", "r", "t", " ">>
SUBSCRIPT     == <<"{", "}", "[", "0", "]">>

\* the builtins module, which exec adds to a globals dict that lacks it
BuiltinNames     == {N_len}
\* modules that can be imported in the hosting environment
InstalledModules == {N_m}
\* what the surrounding process binds: module globals and the caller's locals
ModuleGlobalNames == {N_llm}
CallerLocalNames  == {N_ticker, N_data}
AmbientNames      == ModuleGlobalNames \cup CallerLocalNames

EmptyDict == [n \in {} |-> None]
Bind(d, name, v) ==
    [n \in DOMAIN d \cup {name} |-> IF n = name THEN v ELSE d[n]]

\* index of the first occurrence of ch in s, 0 when absent
RECURSIVE IndexOf(_, _, _)
IndexOf(s, ch, i) ==
    IF i > Len(s) THEN 0
    ELSE IF s[i] = ch THEN i ELSE IndexOf(s, ch, i + 1)

RECURSIVE SplitLines(_)
SplitLines(s) ==
    LET i == IndexOf(s, "\n", 1)
    IN  IF i = 0 THEN <<s>>
        ELSE <<SubSeq(s, 1, i - 1)>> \o SplitLines(SubSeq(s, i + 1, Len(s)))

IsPrefix(p, s) == Len(p) <= Len(s) /\ SubSeq(s, 1, Len(p)) = p

ParseLine(line) ==
    LET eq == IndexOf(line, "=", 1)
        lhs == SubSeq(line, 1, eq - 1)
        rhs == SubSeq(line, eq + 1, Len(line))
        mod == SubSeq(line, Len(IMPORT_) + 1, Len(line))
    IN  IF line = <<>> THEN [op |-> "pass", name |-> <<>>, ref |-> <<>>]
        ELSE IF line = SUBSCRIPT
             THEN [op |-> "subscript", name |-> <<>>, ref |-> <<>>]
        ELSE IF IsPrefix(IMPORT_, line) /\ IsIdent(mod)
             THEN [op |-> "import", name |-> mod, ref |-> <<>>]
        ELSE IF eq > 0 /\ IsIdent(lhs) /\ rhs = <<"1">>
             THEN [op |-> "literal", name |-> lhs, ref |-> <<>>]
        ELSE IF eq > 0 /\ IsIdent(lhs) /\ IsIdent(rhs)
             THEN [op |-> "assign", name |-> lhs, ref |-> rhs]
        ELSE [op |-> "invalid", name |-> <<>>, ref |-> <<>>]

Compile(text) ==
    LET lines == SplitLines(text)
    IN  [i \in 1..Len(lines) |-> ParseLine(lines[i])]

\* a value: what it is, and the run whose executed code bound it
Val(v, r) == [val |-> v, by |-> r]

\* the globals dict of the surrounding module
ModuleGlobals == [n \in ModuleGlobalNames |-> Val(<<"ambient", n>>, 0)]
\* (variant: exec is handed the module's own globals)
ExecGlobalsOfModule == ModuleGlobals
\* the globals argument of exec: the literal {} of line 105
ExecGlobals == EmptyDict

\* name lookup of code run by exec(code, globals, locals):
\* locals, then globals, then builtins, else NameError
Resolve(name, locals, globals) ==
    IF name \in DOMAIN locals THEN [found |-> TRUE, val |-> locals[name].val]
    ELSE IF name \in DOMAIN globals
         THEN [found |-> TRUE, val |-> globals[name].val]
    ELSE IF name \in BuiltinNames
         THEN [found |-> TRUE, val |-> <<"builtin", name>>]
    ELSE [found |-> FALSE, val |-> <<>>]

RECURSIVE RunStmts(_, _, _, _, _)
RunStmts(stmts, i, locals, globals, r) ==
    IF i > Len(stmts) THEN [locals |-> locals, raised |-> None]
    ELSE LET st == stmts[i]
         IN  CASE st.op = "pass" ->
                    RunStmts(stmts, i + 1, locals, globals, r)
               [] st.op = "subscript" ->
                    [locals |-> locals, raised |-> "KeyError"]
               [] st.op = "import" ->
                    IF st.name \in InstalledModules
                    THEN RunStmts(stmts, i + 1,
                                  Bind(locals, st.name, Val(<<"module", st.name>>, r)),
                                  globals, r)
                    ELSE [locals |-> locals, raised |-> "ModuleNotFoundError"]
               [] st.op = "literal" ->
                    RunStmts(stmts, i + 1,
                             Bind(locals, st.name, Val(<<"object", st.name>>, r)),
                             globals, r)
               [] st.op = "assign" ->
                    LET got == Resolve(st.ref, locals, globals)
                    IN  IF got.found
                        THEN RunStmts(stmts, i + 1,
                                      Bind(locals, st.name, Val(got.val, r)),
                                      globals, r)
                        ELSE [locals |-> locals, raised |-> "NameError"]

\* exec(code, globals, locals): compile the whole text, then run it
Exec(text, globals, locals, r) ==
    LET stmts == Compile(text)
    IN  IF \E i \in 1..Len(stmts) : stmts[i].op = "invalid"
        THEN [locals |-> locals, raised |-> "SyntaxError"]
        ELSE RunStmts(stmts, 1, locals, globals, r)

(***************************************************************************)
(* Model responses to the chart prompt (line 101)                          *)
(***************************************************************************)
Assign(l, r) == l \o <<"=">> \o r
Literal(l)   == l \o <<"=", "1">>
Import(m)    == IMPORT_ \o m

Bodies ==
    { Literal(FIG),                          \* binds fig to a new object
      Literal(N_x),                          \* runs, never binds fig
      Assign(FIG, N_llm),                    \* refers to a module global
      Assign(FIG, N_ticker),                 \* refers to a local of the caller
      Assign(FIG, N_len),                    \* refers to a builtin
      Import(N_m) \o NL \o Assign(FIG, N_m), \* imports what it uses
      Assign(FIG, N_m),                      \* uses a module it never imported
      Import(N_q),                           \* imports a module not installed
      SUBSCRIPT,                             \* raises KeyError
      FIG \o <<"=", "(">> }                  \* does not compile

ChartResponses == Bodies \cup { Fence(b) : b \in Bodies }

(***************************************************************************)
(* The script run                                                          *)
(***************************************************************************)
Tickers == {"BBCA"}

NoData == [symbol |-> None, req |-> 0]
NoExc  == [kind |-> None, at |-> None]
NoVal  == Val(<<>>, 0)

\* (variant: main calls interpret_segments before visualize_segments)
StageAfterSwapped(stage) ==
    CASE stage = "button"    -> "fetch"
      [] stage = "fetch"     -> "summary"
      [] stage = "summary"   -> "interpret"
      [] stage = "interpret" -> "chart"
      [] stage = "chart"     -> "risk"
      [] stage = "risk"      -> "done"

\* main, lines 146-149, and segments_summary, lines 54 and 73: the order of
\* the outbound calls of one run
StageAfter(stage) ==
    CASE stage = "button"    -> "fetch"
      [] stage = "fetch"     -> "summary"
      [] stage = "summary"   -> "chart"
      [] stage = "chart"     -> "interpret"
      [] stage = "interpret" -> "risk"
      [] stage = "risk"      -> "done"

\* (variant: one process-wide dict serves every call)
ScopeShared(r) == 1
\* the dict visualize_segments executes in: its own local, created per call
ScopeOf(r) == r

\* a blocking call has returned (or raised): it is no longer outstanding
Returned(calls, stage) == { c \in calls : c.stage # stage }

\* requests.get sends HEADERS (line 34); llm.invoke uses the client's key
CallOf(stage, data, hdr, key) ==
    [stage |-> stage, auth |-> IF stage = "fetch" THEN hdr ELSE key,
     data |-> data.req]

\* an exception leaves main: the script run ends there
Abort(r, kind, at) ==
    /\ pc' = [pc EXCEPT ![r] = "aborted"]
    /\ exc' = [exc EXCEPT ![r] = [kind |-> kind, at |-> at]]

\* `stage` is over without an exception: main goes on to the next call
Continue(r, stage, data, hdr, key) ==
    LET next == StageAfter(stage)
        rest == Returned(inflight[r], stage)
        call == CallOf(next, data, hdr, key)
    IN  IF next = "done"
        THEN /\ pc' = [pc EXCEPT ![r] = "done"]
             /\ inflight' = [inflight EXCEPT ![r] = rest]
             /\ UNCHANGED log
        ELSE /\ pc' = [pc EXCEPT ![r] = next]
             /\ inflight' = [inflight EXCEPT ![r] = rest \cup {call}]
             /\ log' = [log EXCEPT ![r] = Append(@, call)]

\* lines 11-17: the credentials as the environment has them
HeaderOf(e) == IF e.sectors THEN "SECTORS_API_KEY" ELSE None
KeyOf(e)    == IF e.groq THEN "GROQ_API_KEY" ELSE None

InitApp ==
    /\ env \in [groq : BOOLEAN, sectors : BOOLEAN]
    /\ HEADERS = [r \in Runs |-> None]
    /\ llm = [r \in Runs |-> None]
    /\ pc = [r \in Runs |-> "load"]
    /\ ticker = [r \in Runs |-> ""]
    /\ data_segments = [r \in Runs |-> NoData]
    /\ code = [r \in Runs |-> <<>>]
    /\ exec_locals = [r \in Runs |-> EmptyDict]
    /\ display = [r \in Runs |-> <<>>]
    /\ log = [r \in Runs |-> <<>>]
    /\ inflight = [r \in Runs |-> {}]
    /\ exc = [r \in Runs |-> NoExc]
    /\ response = [r \in Runs |-> None]

\* A session opens the page: the script runs top to bottom, the button is
\* not pressed (lines 11-28, 144-145).  ChatGroq refuses a missing key.
LoadPage(r) ==
    /\ pc[r] = "load"
    /\ HEADERS' = [HEADERS EXCEPT ![r] = HeaderOf(env)]
    /\ IF KeyOf(env) = None
       THEN /\ Abort(r, "GroqError", "startup")
            /\ UNCHANGED llm
       ELSE /\ llm' = [llm EXCEPT ![r] = KeyOf(env)]
            /\ pc' = [pc EXCEPT ![r] = "button"]
            /\ UNCHANGED exc
    /\ UNCHANGED <<env, ticker, data_segments, code, exec_locals, display,
                   log, inflight, response>>
    /\ UNCHANGED cleanVars

\* The button is pressed: the script runs again from the top, main calls
\* segments_summary, which renders the header and sends the request
\* (lines 11-28, 144-146, 52-54, 33-34).
Press(r, t) ==
    /\ \/ pc[r] \in {"button", "done"}
       \/ pc[r] = "aborted" /\ exc[r].at # "startup"
    /\ HEADERS' = [HEADERS EXCEPT ![r] = HeaderOf(env)]
    /\ ticker' = [ticker EXCEPT ![r] = t]
    /\ data_segments' = [data_segments EXCEPT ![r] = NoData]
    /\ code' = [code EXCEPT ![r] = <<>>]
    /\ response' = [response EXCEPT ![r] = None]
    /\ IF KeyOf(env) = None
       THEN /\ Abort(r, "GroqError", "startup")
            /\ display' = [display EXCEPT ![r] = <<>>]
            /\ log' = [log EXCEPT ![r] = <<>>]
            /\ UNCHANGED <<llm, inflight>>
       ELSE /\ llm' = [llm EXCEPT ![r] = KeyOf(env)]
            /\ exc' = [exc EXCEPT ![r] = NoExc]
            /\ display' = [display EXCEPT ![r] =
                              <<[section |-> "header", value |-> NoVal]>>]
            /\ LET next == StageAfter("button")
                   call == CallOf(next, NoData, HeaderOf(env), KeyOf(env))
               IN  /\ pc' = [pc EXCEPT ![r] = next]
                   /\ inflight' = [inflight EXCEPT ![r] = {call}]
                   /\ log' = [log EXCEPT ![r] = <<call>>]
    /\ exec_locals' = [exec_locals EXCEPT ![ScopeOf(r)] = EmptyDict]
    /\ UNCHANGED env
    /\ UNCHANGED cleanVars

Shown(r, section, value) ==
    [display EXCEPT ![r] = Append(@, [section |-> section, value |-> value])]

\* The data service answers (fetch_data lines 34-36), the DataFrame is built
\* (lines 54-59) and the summary prompt is sent (lines 73, 41-42).
FetchReturn(r, answer) ==
    /\ pc[r] = "fetch"
    /\ response' = [response EXCEPT ![r] = answer]
    /\ \/ /\ answer = "unreachable"
          /\ Abort(r, "ConnectionError", "fetch")
          /\ inflight' = [inflight EXCEPT ![r] = Returned(@, "fetch")]
          /\ UNCHANGED <<data_segments, log>>
       \/ /\ answer = "error_status"
          /\ Abort(r, "HTTPError", "fetch")
          /\ inflight' = [inflight EXCEPT ![r] = Returned(@, "fetch")]
          /\ UNCHANGED <<data_segments, log>>
       \/ /\ answer = "not_json"
          /\ Abort(r, "JSONDecodeError", "fetch")
          /\ inflight' = [inflight EXCEPT ![r] = Returned(@, "fetch")]
          /\ UNCHANGED <<data_segments, log>>
       \/ /\ answer = "no_revenue_breakdown"
          \* pandas raises ValueError for a mapping of scalars only (line 54),
          \* else the column lookup of line 56 raises KeyError
          /\ \E kind \in {"ValueError", "KeyError"} : Abort(r, kind, "build")
          /\ inflight' = [inflight EXCEPT ![r] = Returned(@, "fetch")]
          /\ UNCHANGED <<data_segments, log>>
       \/ /\ answer = "full"
          /\ LET df == [symbol |-> ticker[r], req |-> r]
             IN  /\ data_segments' = [data_segments EXCEPT ![r] = df]
                 /\ Continue(r, "fetch", df, HEADERS[r], llm[r])
          /\ UNCHANGED exc
    /\ UNCHANGED <<env, HEADERS, llm, ticker, code, exec_locals, display>>
    /\ UNCHANGED cleanVars

\* run_llm returns or raises (line 42); on return the text is rendered
\* (lines 75-76 / 124-125 / 139-140) and main goes on
InsightReturn(r, stage, ok) ==
    /\ pc[r] = stage
    /\ IF ok
       THEN /\ display' = Shown(r, stage, NoVal)
            /\ Continue(r, stage, data_segments[r], HEADERS[r], llm[r])
            /\ UNCHANGED exc
       ELSE /\ Abort(r, "APIError", stage)
            /\ inflight' = [inflight EXCEPT ![r] = Returned(@, stage)]
            /\ UNCHANGED <<display, log>>
    /\ UNCHANGED <<env, HEADERS, llm, ticker, data_segments, code,
                   exec_locals, response>>
    /\ UNCHANGED cleanVars

SummaryReturn(r, ok)   == InsightReturn(r, "summary", ok)
InterpretReturn(r, ok) == InsightReturn(r, "interpret", ok)
RiskReturn(r, ok)      == InsightReturn(r, "risk", ok)

\* llm.invoke of visualize_segments returns a text, which is cleaned
\* (line 101), or raises
ChartReturn(r, ok, text) ==
    /\ pc[r] = "chart"
    /\ inflight' = [inflight EXCEPT ![r] = Returned(@, "chart")]
    /\ IF ok
       THEN /\ code' = [code EXCEPT ![r] = clean_python_code(text)]
            /\ pc' = [pc EXCEPT ![r] = "scope"]
            /\ UNCHANGED exc
       ELSE /\ Abort(r, "APIError", "chart")
            /\ UNCHANGED code
    /\ UNCHANGED <<env, HEADERS, llm, ticker, data_segments, exec_locals,
                   display, log, response>>
    /\ UNCHANGED cleanVars

\* exec_locals = {} (line 104)
CreateScope(r) ==
    /\ pc[r] = "scope"
    /\ exec_locals' = [exec_locals EXCEPT ![ScopeOf(r)] = EmptyDict]
    /\ pc' = [pc EXCEPT ![r] = "exec"]
    /\ UNCHANGED <<env, HEADERS, llm, ticker, data_segments, code, display,
                   log, inflight, exc, response>>
    /\ UNCHANGED cleanVars

\* exec(code, {}, exec_locals) (line 105)
ExecCode(r) ==
    /\ pc[r] = "exec"
    /\ LET res == Exec(code[r], ExecGlobals, exec_locals[ScopeOf(r)], r)
       IN  /\ exec_locals' = [exec_locals EXCEPT ![ScopeOf(r)] = res.locals]
           /\ IF res.raised = None
              THEN /\ pc' = [pc EXCEPT ![r] = "render"]
                   /\ UNCHANGED exc
              ELSE Abort(r, res.raised, "exec")
    /\ UNCHANGED <<env, HEADERS, llm, ticker, data_segments, code, display,
                   log, inflight, response>>
    /\ UNCHANGED cleanVars

\* exec_locals["fig"] (line 106)
Lookup(d, name) ==
    IF name \in DOMAIN d THEN [found |-> TRUE, value |-> d[name]]
    ELSE [found |-> FALSE, value |-> NoVal]

\* st.pyplot(exec_locals["fig"]) (line 106); visualize_segments returns and
\* main calls interpret_segments (lines 148, 122)
RenderFig(r) ==
    /\ pc[r] = "render"
    /\ LET got == Lookup(exec_locals[ScopeOf(r)], FIG)
       IN  IF got.found
           THEN /\ display' = Shown(r, "chart", got.value)
                /\ code' = [code EXCEPT ![r] = <<>>]
                /\ exec_locals' = [exec_locals EXCEPT ![ScopeOf(r)] = EmptyDict]
                /\ Continue(r, "chart", data_segments[r], HEADERS[r], llm[r])
                /\ UNCHANGED exc
           ELSE /\ Abort(r, "KeyError", "lookup")
                /\ UNCHANGED <<display, code, exec_locals, log, inflight>>
    /\ UNCHANGED <<env, HEADERS, llm, ticker, data_segments, response>>
    /\ UNCHANGED cleanVars

FetchAnswers == {"full", "no_revenue_breakdown", "error_status", "not_json",
                 "unreachable"}

Init == InitApp /\ body = <<>> /\ fenced = FALSE /\ raw_code = <<>>
        /\ once = <<>> /\ twice = <<>> /\ cstep = "off"

Next ==
    \/ \E r \in Runs : LoadPage(r)
    \/ \E r \in Runs, t \in Tickers : Press(r, t)
    \/ \E r \in Runs, a \in FetchAnswers : FetchReturn(r, a)
    \/ \E r \in Runs, ok \in BOOLEAN : SummaryReturn(r, ok)
    \/ \E r \in Runs, ok \in BOOLEAN, text \in ChartResponses :
            ChartReturn(r, ok, text)
    \/ \E r \in Runs : CreateScope(r)
    \/ \E r \in Runs : ExecCode(r)
    \/ \E r \in Runs : RenderFig(r)
    \/ \E r \in Runs, ok \in BOOLEAN : InterpretReturn(r, ok)
    \/ \E r \in Runs, ok \in BOOLEAN : RiskReturn(r, ok)

Spec == Init /\ [][Next]_vars

\* clean_python_code on its own, over all bounded raw texts
InitClean ==
    /\ InitCleanVars
    /\ env = [groq |-> TRUE, sectors |-> TRUE]
    /\ HEADERS = [r \in Runs |-> None]
    /\ llm = [r \in Runs |-> None]
    /\ pc = [r \in Runs |-> "load"]
    /\ ticker = [r \in Runs |-> ""]
    /\ data_segments = [r \in Runs |-> NoData]
    /\ code = [r \in Runs |-> <<>>]
    /\ exec_locals = [r \in Runs |-> EmptyDict]
    /\ display = [r \in Runs |-> <<>>]
    /\ log = [r \in Runs |-> <<>>]
    /\ inflight = [r \in Runs |-> {}]
    /\ exc = [r \in Runs |-> NoExc]
    /\ response = [r \in Runs |-> None]

NextClean == CleanOnce \/ CleanTwice

SpecClean == InitClean /\ [][NextClean]_vars

(***************************************************************************)
(* Properties                                                              *)
(***************************************************************************)
PipelineOrder == <<"fetch", "summary", "chart", "interpret", "risk">>

StageIndex(stage) == CHOOSE i \in 1..Len(PipelineOrder) : PipelineOrder[i] = stage

\* the section stage an exception was raised in
StageOfFault(at) == IF at \in {"exec", "lookup"} THEN "chart" ELSE at

Attempted(r, stage) == \E i \in 1..Len(log[r]) : log[r][i].stage = stage

\* C1: once the segment data is fetched, a section stage that fails never
\* keeps the later section stages (in the order summary, chart,
\* interpretation, risk) from being attempted with the fetched data.
C1_LaterStagesAttempted ==
    \A r \in Runs :
        (/\ pc[r] = "aborted"
         /\ data_segments[r] # NoData
         /\ exc[r].at \in {"summary", "chart", "exec", "lookup", "interpret", "risk"})
        => \A s \in {"chart", "interpret", "risk"} :
               StageIndex(s) > StageIndex(StageOfFault(exc[r].at))
               => Attempted(r, s)

\* C2: a fault raised while the synthesized code executes is caught inside
\* the chart section: it never leaves visualize_segments / main and never
\* ends the run.
C2_ExecFaultCaught ==
    \A r \in Runs : ~(pc[r] = "aborted" /\ exc[r].at = "exec")

\* the exception types that running the generated code raises
ExecFaultKinds == {"SyntaxError", "ModuleNotFoundError", "NameError", "KeyError"}

\* C3: code that runs without raising and never binds fig ends the chart
\* step in an error of its own kind (none that executing the code raises),
\* and nothing is rendered as the chart.
C3_DistinctMissingArtifact ==
    \A r \in Runs :
        (pc[r] = "aborted" /\ exc[r].at = "lookup")
        => /\ exc[r].kind \notin ExecFaultKinds
           /\ \A i \in 1..Len(display[r]) : display[r][i].section # "chart"

\* the code of run r has been executed and its frame is still there
AfterExec(r) ==
    \/ pc[r] = "render"
    \/ pc[r] = "aborted" /\ exc[r].at \in {"exec", "lookup"}

\* Running stmts from i, the first fault is a reference to a name that no
\* earlier statement bound and that is not in `known`.
RECURSIVE RefersUnbound(_, _, _, _)
RefersUnbound(stmts, i, bound, known) ==
    IF i > Len(stmts) THEN FALSE
    ELSE LET st == stmts[i]
         IN  CASE st.op = "pass" -> RefersUnbound(stmts, i + 1, bound, known)
               [] st.op = "subscript" -> FALSE
               [] st.op = "invalid" -> FALSE
               [] st.op = "import" ->
                    /\ st.name \in InstalledModules
                    /\ RefersUnbound(stmts, i + 1, bound \cup {st.name}, known)
               [] st.op = "literal" ->
                    RefersUnbound(stmts, i + 1, bound \cup {st.name}, known)
               [] st.op = "assign" ->
                    \/ st.ref \notin bound \cup known
                    \/ RefersUnbound(stmts, i + 1, bound \cup {st.name}, known)

Compiles(text) ==
    \A i \in 1..Len(Compile(text)) : Compile(text)[i].op # "invalid"

NoAmbientValue(r) ==
    \A n \in DOMAIN exec_locals[r] : exec_locals[r][n].val[1] # "ambient"

\* C4 as stated: every reference of the generated program to a name it
\* neither defines nor imports fails with an execution error.
C4_EveryForeignNameFails ==
    \A r \in Runs :
        (AfterExec(r) /\ Compiles(code[r])
            /\ RefersUnbound(Compile(code[r]), 1, {}, {}))
        => exc[r] = [kind |-> "NameError", at |-> "exec"]

\* C4 amended: every reference of the generated program to a name it
\* neither defines nor imports, and that is not a Python builtin, fails
\* with NameError; no name of the executed code ever resolves to a module
\* global or a caller's local of the surrounding process.
C4_NoAmbientResolution ==
    \A r \in Runs :
        /\ (AfterExec(r) /\ Compiles(code[r])
               /\ RefersUnbound(Compile(code[r]), 1, {}, BuiltinNames))
           => exc[r] = [kind |-> "NameError", at |-> "exec"]
        /\ NoAmbientValue(r)

C4_Witness ==
    \E r \in Runs :
        /\ code[r] = Assign(FIG, N_llm)
        /\ exc[r] = [kind |-> "NameError", at |-> "exec"]

ShowsSection(r, section) ==
    \E i \in 1..Len(display[r]) : display[r][i].section = section

\* C5: when the response lacks revenue_breakdown, the fetch stage fails,
\* an error section is shown for it, and chart synthesis is never
\* attempted (no chart request, no generated code).
C5_ParseErrorShown ==
    \A r \in Runs :
        response[r] = "no_revenue_breakdown"
        => /\ pc[r] = "aborted" /\ exc[r].at = "build"
           /\ ShowsSection(r, "error")
           /\ ~Attempted(r, "chart")
           /\ code[r] = <<>>

\* C6: the outbound calls of a run are issued in the order fetch, summary,
\* chart, interpretation, risk, each only after the previous one has
\* returned or raised; at most one is outstanding; none precedes the fetch.
C6_Sequential ==
    \A r \in Runs :
        /\ Len(log[r]) <= Len(PipelineOrder)
        /\ \A i \in 1..Len(log[r]) : log[r][i].stage = PipelineOrder[i]
        /\ Cardinality(inflight[r]) <= 1
        /\ inflight[r] # {} => inflight[r] = {log[r][Len(log[r])]}

C6_Witness ==
    \E r \in Runs :
        /\ pc[r] = "risk"
        /\ Len(log[r]) = 5
        /\ Cardinality(inflight[r]) = 1

\* C7: cleaning cleaned code changes nothing.
C7_Idempotent == cstep = "twice" => twice = once

\* C8: a body wrapped in the python fence comes back exactly as it was
\* (stated for bodies without leading or trailing whitespace, which is
\* what a code body is).
C8_FenceVerbatim ==
    (cstep # "raw" /\ fenced /\ body = Strip(body, Whitespace))
    => once = body

\* C9: with a credential missing, no run starts and no outbound call is
\* made with an empty credential.
C9_FailFast ==
    \A r \in Runs :
        /\ pc[r] \notin {"load", "aborted"} => (env.groq /\ env.sectors)
        /\ \A i \in 1..Len(log[r]) : log[r][i].auth # None

====
